---- MODULE Spec2Model ----
(***************************************************************************)
(* Model of the compiler self-profiler                                     *)
(* (src/librustc_data_structures/profiling.rs): the event filter mask      *)
(* built by SelfProfiler::new, the SelfProfilerRef entry points and their  *)
(* filter shim, the double-checked string cache and the TimingGuard        *)
(* lifecycle.  The measureme sink is modelled by the calls made on it: a   *)
(* string table, a log of recorded events and a counter of started         *)
(* intervals.                                                              *)
(***************************************************************************)
EXTENDS Integers, Sequences, FiniteSets, TLC

VARIABLES
    event_filters,      \* argument of SelfProfiler::new: Option<Vec<String>>
    fs_ok,              \* environment: can the directory / the sink be created
    constructed,        \* "pending", "Ok" or "Err": result of SelfProfiler::new
    dir_created,        \* fs::create_dir_all succeeded
    sink_opened,        \* Profiler::new succeeded
    event_filter_mask,  \* SelfProfiler.event_filter_mask
    event_kinds,        \* the five *_event_kind fields of SelfProfiler
    warnings,           \* warn! calls: each the list of unknown names reported
    strings,            \* sink: string table, StringId = index
    events,             \* sink: recorded raw events
    intervals,          \* sink: number of intervals started so far
    string_cache,       \* SelfProfiler.string_cache: label -> StringId (0 = absent)
    lock_readers,       \* RwLock: threads holding the shared lock
    lock_writer,        \* RwLock: thread holding the exclusive lock, 0 = none
    refs,               \* the SelfProfilerRef values in existence
    guards,             \* the TimingGuard values handed out
    pc,                 \* per thread: position inside get_or_alloc_cached_string
    local,              \* per thread: arguments of the call in progress
    returned,           \* (label, id) pairs returned by get_or_alloc_cached_string
    intern_allocs,      \* per label: alloc_string calls made by the string cache
    ncalls,             \* per thread: get_or_alloc_cached_string calls made
    panicked,           \* the unwrap in cold_call hit None
    stdout,             \* lines printed by print_time_passes_entry
    closure_runs,       \* runs of the closure passed to with_profiler
    virtual_map,        \* sink: (virtual id, concrete id) bindings issued to it
    bound_to,           \* per query invocation id: the label the host bound it to
    ref_dropped,        \* the SelfProfilerRef values that have been dropped
    in_run,             \* the guards moved into run(f) whose f has not returned
    last_op             \* the operation performed by the last step

newVars == <<event_filters, fs_ok, constructed, dir_created, sink_opened,
             event_filter_mask, event_kinds, warnings>>
sinkVars == <<strings, events, intervals>>
cacheVars == <<string_cache, lock_readers, lock_writer>>
threadVars == <<pc, local, returned, intern_allocs, ncalls>>
hostVars == <<virtual_map, bound_to, ref_dropped, in_run>>
vars == <<event_filters, fs_ok, constructed, dir_created, sink_opened,
          event_filter_mask, event_kinds, warnings, strings, events, intervals,
          string_cache, lock_readers, lock_writer, refs, guards, pc, local,
          returned, intern_allocs, ncalls, panicked, stdout, closure_runs,
          virtual_map, bound_to, ref_dropped, in_run, last_op>>

----------------------------------------------------------------------------
(* Bounds of the model.                                                    *)

MaxFilters == 3
MaxThreads == 2
MaxWorkers == 1
MaxCalls == 2
MaxRefs == 2
MaxNewRefs == 1
MaxGuards == 2
MaxInstant == 1
MaxWith == 1
MaxBindings == 2
MaxAllocs == 1

Threads == 1..MaxThreads
\* the threads that use the SelfProfilerRef entry points
Workers == 1..MaxWorkers

----------------------------------------------------------------------------
(* u32 bit operations used by the bitflags type.  A u32 is represented by   *)
(* the set of the positions of its one bits (the value 2^32 - 1 of ALL is  *)
(* outside the integers TLC computes with).                                *)

BITS == 32

\* 1 << n
Shl1(n) == {n}
BitOr(a, b) == a \cup b
BitAnd(a, b) == a \cap b
BitNot(a) == (0..(BITS - 1)) \ a

\* EventFilter::contains
Contains(mask, other) == BitAnd(mask, other) = other

----------------------------------------------------------------------------
(* bitflags! struct EventFilter                                            *)

GENERIC_ACTIVITIES == Shl1(0)
QUERY_PROVIDERS == Shl1(1)
QUERY_CACHE_HITS == Shl1(2)
QUERY_BLOCKED == Shl1(3)
INCR_CACHE_LOADS == Shl1(4)
QUERY_KEYS == Shl1(5)

\* faulty variant: the default preset also enables the cache-hit events
DEFAULT_Mutant ==
    BitOr(GENERIC_ACTIVITIES, BitOr(QUERY_PROVIDERS,
          BitOr(QUERY_CACHE_HITS, BitOr(QUERY_BLOCKED, INCR_CACHE_LOADS))))

DEFAULT ==
    BitOr(GENERIC_ACTIVITIES, BitOr(QUERY_PROVIDERS,
          BitOr(QUERY_BLOCKED, INCR_CACHE_LOADS)))

NONE == {}
ALL == BitNot(NONE)

\* faulty variant: `query-cache-hit` also carries the query-provider bit
EVENT_FILTERS_BY_NAME_Mutant ==
    << <<"none", NONE>>,
       <<"all", ALL>>,
       <<"generic-activity", GENERIC_ACTIVITIES>>,
       <<"query-provider", QUERY_PROVIDERS>>,
       <<"query-cache-hit", BitOr(QUERY_CACHE_HITS, QUERY_PROVIDERS)>>,
       <<"query-blocked", QUERY_BLOCKED>>,
       <<"incr-cache-load", INCR_CACHE_LOADS>>,
       <<"query-keys", QUERY_KEYS>> >>

EVENT_FILTERS_BY_NAME ==
    << <<"none", NONE>>,
       <<"all", ALL>>,
       <<"generic-activity", GENERIC_ACTIVITIES>>,
       <<"query-provider", QUERY_PROVIDERS>>,
       <<"query-cache-hit", QUERY_CACHE_HITS>>,
       <<"query-blocked", QUERY_BLOCKED>>,
       <<"incr-cache-load", INCR_CACHE_LOADS>>,
       <<"query-keys", QUERY_KEYS>> >>

KnownNames == {EVENT_FILTERS_BY_NAME[i][1] : i \in DOMAIN EVENT_FILTERS_BY_NAME}
UnknownNames == {"foo", "bar"}
Names == KnownNames \cup UnknownNames

\* The bytes of each name: String's Ord compares them lexicographically.
NameBytes ==
    [n \in Names |->
        CASE n = "none" -> <<110, 111, 110, 101>>
          [] n = "all" -> <<97, 108, 108>>
          [] n = "generic-activity" ->
                <<103, 101, 110, 101, 114, 105, 99, 45, 97, 99, 116, 105, 118, 105, 116, 121>>
          [] n = "query-provider" ->
                <<113, 117, 101, 114, 121, 45, 112, 114, 111, 118, 105, 100, 101, 114>>
          [] n = "query-cache-hit" ->
                <<113, 117, 101, 114, 121, 45, 99, 97, 99, 104, 101, 45, 104, 105, 116>>
          [] n = "query-blocked" ->
                <<113, 117, 101, 114, 121, 45, 98, 108, 111, 99, 107, 101, 100>>
          [] n = "incr-cache-load" ->
                <<105, 110, 99, 114, 45, 99, 97, 99, 104, 101, 45, 108, 111, 97, 100>>
          [] n = "query-keys" -> <<113, 117, 101, 114, 121, 45, 107, 101, 121, 115>>
          [] n = "foo" -> <<102, 111, 111>>
          [] n = "bar" -> <<98, 97, 114>>]

RECURSIVE BytesLess(_, _)
BytesLess(a, b) ==
    IF b = <<>> THEN FALSE
    ELSE IF a = <<>> THEN TRUE
    ELSE IF Head(a) # Head(b) THEN Head(a) < Head(b)
    ELSE BytesLess(Tail(a), Tail(b))

StrLess(a, b) == BytesLess(NameBytes[a], NameBytes[b])

----------------------------------------------------------------------------
(* SelfProfiler::new                                                       *)

NoFilters == [is_some |-> FALSE, list |-> <<>>]
SomeFilters(l) == [is_some |-> TRUE, list |-> l]

\* EVENT_FILTERS_BY_NAME.iter().find(|&(name, _)| name == item): index, 0 = None
RECURSIVE FindFrom(_, _)
FindFrom(item, i) ==
    IF i > Len(EVENT_FILTERS_BY_NAME) THEN 0
    ELSE IF EVENT_FILTERS_BY_NAME[i][1] = item THEN i
    ELSE FindFrom(item, i + 1)

Find(item) == FindFrom(item, 1)

\* one iteration of `for item in event_filters`
\* faulty variant: the mask is assigned (=) instead of OR-combined (|=)
FilterStep_Mutant(st, item) ==
    IF Find(item) # 0
    THEN [st EXCEPT !.mask = EVENT_FILTERS_BY_NAME[Find(item)][2]]
    ELSE [st EXCEPT !.unknown = Append(@, item)]

FilterStep(st, item) ==
    IF Find(item) # 0
    THEN [st EXCEPT !.mask = BitOr(@, EVENT_FILTERS_BY_NAME[Find(item)][2])]
    ELSE [st EXCEPT !.unknown = Append(@, item)]

RECURSIVE FilterLoop(_, _)
FilterLoop(st, list) ==
    IF list = <<>> THEN st
    ELSE FilterLoop(FilterStep(st, Head(list)), Tail(list))

\* Vec::sort on strings (the result of a sort by a total order is unique)
RECURSIVE Insert(_, _)
Insert(sorted, x) ==
    IF sorted = <<>> THEN <<x>>
    ELSE IF StrLess(x, Head(sorted)) THEN <<x>> \o sorted
    ELSE <<Head(sorted)>> \o Insert(Tail(sorted), x)

RECURSIVE Sort(_)
Sort(v) == IF v = <<>> THEN <<>> ELSE Insert(Sort(Tail(v)), Head(v))

\* Vec::dedup: removes consecutive repeated elements
\* faulty variant: the dedup call is left out
Dedup_Mutant(v) == v

RECURSIVE Dedup(_)
Dedup(v) ==
    IF Len(v) < 2 THEN v
    ELSE IF v[1] = v[2] THEN Dedup(Tail(v))
    ELSE <<v[1]>> \o Dedup(Tail(v))

\* the mask computed from the event_filters argument
NewMask(filters) ==
    IF filters.is_some
    THEN FilterLoop([mask |-> {}, unknown |-> <<>>], filters.list).mask
    ELSE DEFAULT

\* the warn! calls made for the event_filters argument
NewWarnings(filters) ==
    IF filters.is_some
    THEN LET unknown_events ==
                 FilterLoop([mask |-> {}, unknown |-> <<>>], filters.list).unknown
         IN IF Len(unknown_events) > 0
            THEN << Dedup(Sort(unknown_events)) >>
            ELSE <<>>
    ELSE <<>>

\* the five alloc_string calls for the event kinds
KindStrings ==
    <<"Query", "GenericActivity", "IncrementalLoadResult", "QueryBlocked",
      "QueryCacheHit">>

\* faulty variant: query_blocked is given the kind of the query provider
NewEventKinds_Mutant ==
    [query_event_kind |-> 1,
     generic_activity_event_kind |-> 2,
     incremental_load_result_event_kind |-> 3,
     query_blocked_event_kind |-> 1,
     query_cache_hit_event_kind |-> 5]

NewEventKinds ==
    [query_event_kind |-> 1,
     generic_activity_event_kind |-> 2,
     incremental_load_result_event_kind |-> 3,
     query_blocked_event_kind |-> 4,
     query_cache_hit_event_kind |-> 5]

NoEventKinds ==
    [query_event_kind |-> 0,
     generic_activity_event_kind |-> 0,
     incremental_load_result_event_kind |-> 0,
     query_blocked_event_kind |-> 0,
     query_cache_hit_event_kind |-> 0]

Labels == {"typeck", "codegen"}

RECURSIVE SeqsUpTo(_, _)
SeqsUpTo(S, n) ==
    IF n = 0 THEN {<<>>}
    ELSE LET shorter == SeqsUpTo(S, n - 1)
         IN shorter \cup {Append(s, x) : s \in shorter, x \in S}

FilterInputs ==
    {NoFilters} \cup {SomeFilters(l) : l \in SeqsUpTo(Names, MaxFilters)}

Op(name, t, r, g) ==
    [op |-> name, thread |-> t, ref |-> r, guard |-> g, q |-> 0, ret |-> FALSE]
NoOp == Op("none", 0, 0, 0)

RuntimeInit ==
    /\ string_cache = [l \in Labels |-> 0]
    /\ lock_readers = {}
    /\ lock_writer = 0
    /\ refs = <<>>
    /\ guards = <<>>
    /\ pc = [t \in Threads |-> "idle"]
    /\ local = [t \in Threads |->
                  [s |-> "", caller |-> "", ref |-> 0, wrapper |-> "",
                   verbose |-> FALSE]]
    /\ returned = {}
    /\ intern_allocs = [l \in Labels |-> 0]
    /\ ncalls = [t \in Threads |-> 0]
    /\ panicked = FALSE
    /\ stdout = <<>>
    /\ closure_runs = 0
    /\ virtual_map = {}
    /\ bound_to = {}
    /\ ref_dropped = {}
    /\ in_run = {}
    /\ last_op = NoOp

\* Before SelfProfiler::new is called, with its arguments chosen.
InitNew ==
    /\ event_filters \in FilterInputs
    /\ fs_ok \in [dir : BOOLEAN, sink : BOOLEAN]
    /\ constructed = "pending"
    /\ dir_created = FALSE
    /\ sink_opened = FALSE
    /\ event_filter_mask = {}
    /\ event_kinds = NoEventKinds
    /\ warnings = <<>>
    /\ strings = <<>>
    /\ events = <<>>
    /\ intervals = 0
    /\ RuntimeInit

\* faulty variant: the filter names are processed before the sink is opened
SelfProfiler_new_Mutant ==
    /\ constructed = "pending"
    /\ last_op' = Op("SelfProfiler::new", 0, 0, 0)
    /\ IF ~fs_ok.dir
       THEN /\ constructed' = "Err"
            /\ UNCHANGED <<dir_created, sink_opened, event_filter_mask,
                           event_kinds, warnings, strings>>
       ELSE IF ~fs_ok.sink
       THEN /\ constructed' = "Err"
            /\ dir_created' = TRUE
            /\ warnings' = warnings \o NewWarnings(event_filters)
            /\ UNCHANGED <<sink_opened, event_filter_mask, event_kinds, strings>>
       ELSE /\ constructed' = "Ok"
            /\ dir_created' = TRUE
            /\ sink_opened' = TRUE
            /\ strings' = strings \o KindStrings
            /\ event_kinds' = NewEventKinds
            /\ event_filter_mask' = NewMask(event_filters)
            /\ warnings' = warnings \o NewWarnings(event_filters)
    /\ UNCHANGED <<hostVars, event_filters, fs_ok, events, intervals, cacheVars, refs,
                   guards, threadVars, panicked, stdout, closure_runs>>

SelfProfiler_new ==
    /\ constructed = "pending"
    /\ last_op' = Op("SelfProfiler::new", 0, 0, 0)
    /\ IF ~fs_ok.dir
       THEN \* fs::create_dir_all(output_directory)?
            /\ constructed' = "Err"
            /\ UNCHANGED <<dir_created, sink_opened, event_filter_mask,
                           event_kinds, warnings, strings>>
       ELSE IF ~fs_ok.sink
       THEN \* Profiler::new(&path)?
            /\ constructed' = "Err"
            /\ dir_created' = TRUE
            /\ UNCHANGED <<sink_opened, event_filter_mask, event_kinds,
                           warnings, strings>>
       ELSE /\ constructed' = "Ok"
            /\ dir_created' = TRUE
            /\ sink_opened' = TRUE
            /\ strings' = strings \o KindStrings
            /\ event_kinds' = NewEventKinds
            /\ event_filter_mask' = NewMask(event_filters)
            /\ warnings' = warnings \o NewWarnings(event_filters)
    /\ UNCHANGED <<hostVars, event_filters, fs_ok, events, intervals, cacheVars, refs,
                   guards, threadVars, panicked, stdout, closure_runs>>

NextNew == SelfProfiler_new

SpecNew == InitNew /\ [][NextNew]_vars

----------------------------------------------------------------------------
(* The session: a SelfProfiler constructed by SelfProfiler::new.           *)

\* the event_filters arguments of the sessions explored
SessionFilters ==
    {NoFilters,
     SomeFilters(<<"none">>),
     SomeFilters(<<"all">>),
     SomeFilters(<<"query-provider", "query-cache-hit">>)}

Init ==
    /\ event_filters \in SessionFilters
    /\ fs_ok = [dir |-> TRUE, sink |-> TRUE]
    /\ constructed = "Ok"
    /\ dir_created = TRUE
    /\ sink_opened = TRUE
    /\ event_filter_mask = NewMask(event_filters)
    /\ event_kinds = NewEventKinds
    /\ warnings = NewWarnings(event_filters)
    /\ strings = KindStrings
    /\ events = <<>>
    /\ intervals = 0
    /\ RuntimeInit

----------------------------------------------------------------------------
(* measureme identifiers                                                   *)

QueryIds == {7, 42}

INVALID == [tag |-> "INVALID", id |-> 0]
\* EventId::from_label
from_label(string_id) == [tag |-> "Label", id |-> string_id]
\* EventId::from_virtual(StringId::new_virtual(q))
\* faulty variant: the invocation id is taken for the id of a label
from_virtual_Mutant(q) == from_label(q)

from_virtual(q) == [tag |-> "Virtual", id |-> q]

----------------------------------------------------------------------------
(* SelfProfilerRef                                                         *)

\* the mask SelfProfilerRef::new stores for Some(profiler) / None
\* faulty variant: a reference without a profiler gets the default mask
RefMask_Mutant9(has_profiler) ==
    IF has_profiler THEN event_filter_mask ELSE DEFAULT

\* faulty variant: the profiler's mask is not copied, the default is used
RefMask_Mutant10(has_profiler) ==
    IF has_profiler THEN DEFAULT ELSE NONE

RefMask(has_profiler) ==
    IF has_profiler THEN event_filter_mask ELSE NONE

SelfProfilerRef_new(has_profiler, verbose, extra_verbose) ==
    /\ Len(refs) < MaxNewRefs
    /\ has_profiler => constructed = "Ok"
    /\ refs' = Append(refs,
                 [profiler |-> has_profiler,
                  event_filter_mask |-> RefMask(has_profiler),
                  print_verbose_generic_activities |-> verbose,
                  print_extra_verbose_generic_activities |-> extra_verbose])
    /\ last_op' = Op("SelfProfilerRef::new", 0, Len(refs) + 1, 0)
    /\ UNCHANGED <<hostVars, newVars, sinkVars, cacheVars, guards, threadVars, panicked,
                   stdout, closure_runs>>

\* #[derive(Clone)]
SelfProfilerRef_clone(r) ==
    /\ Len(refs) < MaxRefs
    /\ refs' = Append(refs, refs[r])
    /\ last_op' = Op("SelfProfilerRef::clone", 0, Len(refs) + 1, 0)
    /\ UNCHANGED <<hostVars, newVars, sinkVars, cacheVars, guards, threadVars, panicked,
                   stdout, closure_runs>>

\* the filter check of exec
\* faulty variant: exec checks for the profiler handle instead of the mask
Exec_Mutant(r, event_filter) == refs[r].profiler

Exec(r, event_filter) == Contains(refs[r].event_filter_mask, event_filter)

\* guards handed out plus guards that calls in progress will hand out
GuardsDue ==
    Len(guards) + Cardinality({t \in Threads : pc[t] # "idle" /\ local[t].caller # "direct"})

\* TimingGuard::none()
NoneGuard(t, r, cat) ==
    [thread |-> t, ref |-> r, cat |-> cat, inner |-> "None",
     event_kind |-> 0, event_id |-> INVALID, start |-> 0, live |-> TRUE,
     wrapper |-> "plain", what |-> "", start_instant |-> FALSE]

\* TimingGuard::start: the measureme guard of a started interval
StartedGuard(t, r, cat, event_kind, event_id) ==
    [thread |-> t, ref |-> r, cat |-> cat, inner |-> "Some",
     event_kind |-> event_kind, event_id |-> event_id,
     start |-> intervals + 1, live |-> TRUE,
     wrapper |-> "plain", what |-> "", start_instant |-> FALSE]

\* VerboseTimingGuard::start around a TimingGuard
\* faulty variant: the start instant is captured whatever the flag
Verbose_Mutant14(g, what, verbose) ==
    [g EXCEPT !.wrapper = "verbose", !.what = what, !.start_instant = TRUE]

\* faulty variant: the start instant is captured only for a started interval
Verbose_Mutant15(g, what, verbose) ==
    [g EXCEPT !.wrapper = "verbose", !.what = what,
              !.start_instant = verbose /\ g.inner = "Some"]

Verbose(g, what, verbose) ==
    [g EXCEPT !.wrapper = "verbose", !.what = what, !.start_instant = verbose]

\* query_provider, query_blocked, incr_cache_loading: exec with a closure that
\* starts an interval with EventId::INVALID
IntervalEntry(t, r, cat, event_filter, event_kind) ==
    /\ pc[t] = "idle"
    /\ GuardsDue < MaxGuards
    /\ last_op' = Op(cat, t, r, 0)
    /\ IF Exec(r, event_filter)
       THEN IF refs[r].profiler
            THEN /\ intervals' = intervals + 1
                 /\ guards' = Append(guards,
                                StartedGuard(t, r, cat, event_kind, INVALID))
                 /\ UNCHANGED panicked
            ELSE \* profiler_ref.profiler.as_ref().unwrap()
                 /\ panicked' = TRUE
                 /\ UNCHANGED <<intervals, guards>>
       ELSE /\ guards' = Append(guards, NoneGuard(t, r, cat))
            /\ UNCHANGED <<intervals, panicked>>
    /\ UNCHANGED <<hostVars, newVars, strings, events, cacheVars, refs, threadVars,
                   stdout, closure_runs>>

query_provider(t, r) ==
    IntervalEntry(t, r, "query_provider", QUERY_PROVIDERS,
                  event_kinds.query_event_kind)

query_blocked(t, r) ==
    IntervalEntry(t, r, "query_blocked", QUERY_BLOCKED,
                  event_kinds.query_blocked_event_kind)

incr_cache_loading(t, r) ==
    IntervalEntry(t, r, "incr_cache_loading", INCR_CACHE_LOADS,
                  event_kinds.incremental_load_result_event_kind)

InstantEvents == {i \in DOMAIN events : events[i].type = "instant"}

\* query_cache_hit -> instant_query_event
query_cache_hit(t, r, q) ==
    /\ pc[t] = "idle"
    /\ Cardinality(InstantEvents) < MaxInstant
    /\ last_op' = [Op("query_cache_hit", t, r, 0) EXCEPT !.q = q]
    /\ IF Exec(r, QUERY_CACHE_HITS)
       THEN IF refs[r].profiler
            THEN /\ events' = Append(events,
                                [type |-> "instant",
                                 event_kind |-> event_kinds.query_cache_hit_event_kind,
                                 event_id |-> from_virtual(q),
                                 thread_id |-> t, start |-> 0])
                 /\ UNCHANGED panicked
            ELSE /\ panicked' = TRUE
                 /\ UNCHANGED events
       ELSE UNCHANGED <<events, panicked>>
    /\ UNCHANGED <<hostVars, newVars, strings, intervals, cacheVars, refs, guards,
                   threadVars, stdout, closure_runs>>

\* generic_activity and verbose_generic_activity: exec with a closure that
\* first calls get_or_alloc_cached_string
GenericEntry(t, r, s, cat, wrapper, verbose) ==
    /\ pc[t] = "idle"
    /\ GuardsDue < MaxGuards
    /\ last_op' = Op(cat, t, r, 0)
    /\ IF Exec(r, GENERIC_ACTIVITIES)
       THEN IF refs[r].profiler
            THEN /\ pc' = [pc EXCEPT ![t] = "enter"]
                 /\ local' = [local EXCEPT ![t] =
                                [s |-> s, caller |-> cat, ref |-> r,
                                 wrapper |-> wrapper, verbose |-> verbose]]
                 /\ ncalls' = [ncalls EXCEPT ![t] = @ + 1]
                 /\ UNCHANGED <<guards, panicked>>
            ELSE /\ panicked' = TRUE
                 /\ UNCHANGED <<guards, pc, local, ncalls>>
       ELSE /\ guards' = Append(guards,
                   IF wrapper = "verbose"
                   THEN Verbose(NoneGuard(t, r, cat), s, verbose)
                   ELSE NoneGuard(t, r, cat))
            /\ UNCHANGED <<pc, local, ncalls, panicked>>
    /\ UNCHANGED <<hostVars, newVars, sinkVars, cacheVars, refs, returned, intern_allocs,
                   stdout, closure_runs>>

generic_activity(t, r, s) ==
    GenericEntry(t, r, s, "generic_activity", "plain", FALSE)

verbose_generic_activity(t, r, s) ==
    GenericEntry(t, r, s, "verbose_generic_activity", "verbose",
                 refs[r].print_verbose_generic_activities)

\* no exec, no measureme event: VerboseTimingGuard around TimingGuard::none()
extra_verbose_generic_activity(t, r, s) ==
    /\ pc[t] = "idle"
    /\ GuardsDue < MaxGuards
    /\ last_op' = Op("extra_verbose_generic_activity", t, r, 0)
    /\ guards' = Append(guards,
           Verbose(NoneGuard(t, r, "extra_verbose_generic_activity"), s,
                   refs[r].print_extra_verbose_generic_activities))
    /\ UNCHANGED <<hostVars, newVars, sinkVars, cacheVars, refs, threadVars, panicked,
                   stdout, closure_runs>>

\* with_profiler(f): f is modelled by a count of its runs
with_profiler(t, r) ==
    /\ pc[t] = "idle"
    /\ closure_runs < MaxWith
    /\ last_op' = Op("with_profiler", t, r, 0)
    /\ closure_runs' = IF refs[r].profiler THEN closure_runs + 1 ELSE closure_runs
    /\ UNCHANGED <<hostVars, newVars, sinkVars, cacheVars, refs, guards, threadVars,
                   panicked, stdout>>

\* self.profiler.is_some()
\* faulty variant: the answer is taken from the mask
IsSome_Mutant(r) == refs[r].event_filter_mask # NONE

IsSome(r) == refs[r].profiler

\* enabled(): the returned value is kept in last_op
enabled(t, r) ==
    /\ pc[t] = "idle"
    /\ last_op' = [Op("enabled", t, r, 0) EXCEPT !.ret = IsSome(r)]
    /\ UNCHANGED <<hostVars, newVars, sinkVars, cacheVars, refs, guards, threadVars,
                   panicked, stdout, closure_runs>>

----------------------------------------------------------------------------
(* SelfProfiler::get_or_alloc_cached_string, one step per lock operation   *)

NoCall == [s |-> "", caller |-> "", ref |-> 0, wrapper |-> "", verbose |-> FALSE]

\* a direct call by the host
get_or_alloc_cached_string(t, s) ==
    /\ constructed = "Ok"
    /\ pc[t] = "idle"
    /\ ncalls[t] < MaxCalls
    /\ pc' = [pc EXCEPT ![t] = "enter"]
    /\ local' = [local EXCEPT ![t] = [NoCall EXCEPT !.s = s, !.caller = "direct"]]
    /\ ncalls' = [ncalls EXCEPT ![t] = @ + 1]
    /\ last_op' = Op("get_or_alloc_cached_string", t, 0, 0)
    /\ UNCHANGED <<hostVars, newVars, sinkVars, cacheVars, refs, guards, returned,
                   intern_allocs, panicked, stdout, closure_runs>>

\* the return of get_or_alloc_cached_string with `id`; in generic_activity the
\* closure goes on with EventId::from_label and TimingGuard::start
Return(t, id) ==
    /\ returned' = returned \cup {<<local[t].s, id>>}
    /\ pc' = [pc EXCEPT ![t] = "idle"]
    /\ local' = [local EXCEPT ![t] = NoCall]
    /\ IF local[t].caller = "direct"
       THEN UNCHANGED <<guards, intervals>>
       ELSE LET g == StartedGuard(t, local[t].ref, local[t].caller,
                                  event_kinds.generic_activity_event_kind,
                                  from_label(id))
            IN /\ intervals' = intervals + 1
               /\ guards' = Append(guards,
                      IF local[t].wrapper = "verbose"
                      THEN Verbose(g, local[t].s, local[t].verbose)
                      ELSE g)

\* self.string_cache.read()
ReadLock(t) ==
    /\ pc[t] = "enter"
    /\ lock_writer = 0
    /\ lock_readers' = lock_readers \cup {t}
    /\ pc' = [pc EXCEPT ![t] = "read"]
    /\ last_op' = Op("read", t, 0, 0)
    /\ UNCHANGED <<hostVars, newVars, sinkVars, string_cache, lock_writer, refs, guards,
                   local, returned, intern_allocs, ncalls, panicked, stdout,
                   closure_runs>>

\* string_cache.get(s) under the read lock; the lock is released either way
\* faulty variant: on a miss the read lock is kept while the write lock is
\* requested
ReadLookup_Mutant(t) ==
    /\ pc[t] = "read"
    /\ last_op' = Op("get", t, 0, 0)
    /\ IF string_cache[local[t].s] # 0
       THEN /\ lock_readers' = lock_readers \ {t}
            /\ Return(t, string_cache[local[t].s])
       ELSE /\ pc' = [pc EXCEPT ![t] = "miss"]
            /\ UNCHANGED <<lock_readers, local, returned, guards, intervals>>
    /\ UNCHANGED <<hostVars, newVars, strings, events, string_cache, lock_writer, refs,
                   intern_allocs, ncalls, panicked, stdout, closure_runs>>

ReadLookup(t) ==
    /\ pc[t] = "read"
    /\ lock_readers' = lock_readers \ {t}
    /\ last_op' = Op("get", t, 0, 0)
    /\ IF string_cache[local[t].s] # 0
       THEN Return(t, string_cache[local[t].s])
       ELSE /\ pc' = [pc EXCEPT ![t] = "miss"]
            /\ UNCHANGED <<local, returned, guards, intervals>>
    /\ UNCHANGED <<hostVars, newVars, strings, events, string_cache, lock_writer, refs,
                   intern_allocs, ncalls, panicked, stdout, closure_runs>>

\* self.string_cache.write()
\* faulty variant: the write lock is granted while readers hold the lock
WriteLock_Mutant(t) ==
    /\ pc[t] = "miss"
    /\ lock_writer = 0
    /\ lock_writer' = t
    /\ pc' = [pc EXCEPT ![t] = "write"]
    /\ last_op' = Op("write", t, 0, 0)
    /\ UNCHANGED <<hostVars, newVars, sinkVars, string_cache, lock_readers, refs, guards,
                   local, returned, intern_allocs, ncalls, panicked, stdout,
                   closure_runs>>

WriteLock(t) ==
    /\ pc[t] = "miss"
    /\ lock_writer = 0
    /\ lock_readers = {}
    /\ lock_writer' = t
    /\ pc' = [pc EXCEPT ![t] = "write"]
    /\ last_op' = Op("write", t, 0, 0)
    /\ UNCHANGED <<hostVars, newVars, sinkVars, string_cache, lock_readers, refs, guards,
                   local, returned, intern_allocs, ncalls, panicked, stdout,
                   closure_runs>>

\* entry(s).or_insert_with(..): is the entry vacant
\* faulty variant: no re-check under the write lock
Vacant_Mutant(s) == TRUE

Vacant(s) == string_cache[s] = 0

\* entry(s).or_insert_with(|| self.profiler.alloc_string(s)) under the write
\* lock, released on return
WriteInsert(t) ==
    /\ pc[t] = "write"
    /\ lock_writer' = 0
    /\ last_op' = Op("or_insert_with", t, 0, 0)
    /\ IF Vacant(local[t].s)
       THEN /\ strings' = Append(strings, local[t].s)
            /\ string_cache' = [string_cache EXCEPT ![local[t].s] = Len(strings) + 1]
            /\ intern_allocs' = [intern_allocs EXCEPT ![local[t].s] = @ + 1]
            /\ Return(t, Len(strings) + 1)
       ELSE /\ UNCHANGED <<strings, string_cache, intern_allocs>>
            /\ Return(t, string_cache[local[t].s])
    /\ UNCHANGED <<hostVars, newVars, events, lock_readers, refs, ncalls, panicked,
                   stdout, closure_runs>>

\* the strings allocated by alloc_string calls of the host
DirectAllocs ==
    Len(strings) - Len(KindStrings)
        - Cardinality({l \in Labels : string_cache[l] # 0})

\* SelfProfiler::alloc_string: no caching, no deduplication
\* faulty variant: the new identifier is put into the string cache
alloc_string_Mutant(s) ==
    /\ constructed = "Ok"
    /\ DirectAllocs < MaxAllocs
    /\ strings' = Append(strings, s)
    /\ string_cache' = [string_cache EXCEPT ![s] = Len(strings) + 1]
    /\ last_op' = [Op("alloc_string", 0, 0, 0) EXCEPT !.q = Len(strings) + 1]
    /\ UNCHANGED <<hostVars, newVars, events, intervals, lock_readers,
                   lock_writer, refs, guards, threadVars, panicked, stdout,
                   closure_runs>>

alloc_string(s) ==
    /\ constructed = "Ok"
    /\ DirectAllocs < MaxAllocs
    /\ strings' = Append(strings, s)
    /\ last_op' = [Op("alloc_string", 0, 0, 0) EXCEPT !.q = Len(strings) + 1]
    /\ UNCHANGED <<hostVars, newVars, events, intervals, cacheVars, refs,
                   guards, threadVars, panicked, stdout, closure_runs>>

----------------------------------------------------------------------------
(* TimingGuard and VerboseTimingGuard                                      *)

\* the guard is moved into drop / finish_with_query_invocation_id
\* faulty variant: closing does not consume the guard
Consumed_Mutant(g) == g

Consumed(g) == [g EXCEPT !.live = FALSE]

\* the raw event measureme records when its guard is dropped
IntervalEvent(g, event_id) ==
    [type |-> "interval", event_kind |-> g.event_kind, event_id |-> event_id,
     thread_id |-> g.thread, start |-> g.start]

\* the event id finish_with_query_invocation_id hands to
\* finish_with_override_event_id
\* faulty variant: the override is dropped, the start identifier is kept
OverrideEventId_Mutant(g, q) == g.event_id

OverrideEventId(g, q) == from_virtual(q)

\* scope exit: Drop for VerboseTimingGuard prints, then the inner TimingGuard
\* is dropped and measureme records the interval
\* faulty variant: the inner guard is finished before the line is printed
TimingGuard_drop_Mutant(i) ==
    /\ guards[i].live
    /\ pc[guards[i].thread] = "idle"
    /\ last_op' = Op("drop", guards[i].thread, guards[i].ref, i)
    /\ guards' = [guards EXCEPT ![i] = Consumed(@)]
    /\ events' = IF guards[i].inner = "Some"
                 THEN Append(events, IntervalEvent(guards[i], guards[i].event_id))
                 ELSE events
    /\ stdout' = IF guards[i].wrapper = "verbose" /\ guards[i].start_instant
                 THEN Append(stdout, [what |-> guards[i].what, at |-> Len(events')])
                 ELSE stdout
    /\ UNCHANGED <<hostVars, newVars, strings, intervals, cacheVars, refs, threadVars,
                   panicked, closure_runs>>

TimingGuard_drop(i) ==
    /\ guards[i].live
    /\ pc[guards[i].thread] = "idle"
    /\ last_op' = Op("drop", guards[i].thread, guards[i].ref, i)
    /\ guards' = [guards EXCEPT ![i] = Consumed(@)]
    /\ stdout' = IF guards[i].wrapper = "verbose" /\ guards[i].start_instant
                 THEN Append(stdout, [what |-> guards[i].what, at |-> Len(events)])
                 ELSE stdout
    /\ events' = IF guards[i].inner = "Some"
                 THEN Append(events, IntervalEvent(guards[i], guards[i].event_id))
                 ELSE events
    /\ UNCHANGED <<hostVars, newVars, strings, intervals, cacheVars, refs, threadVars,
                   panicked, closure_runs>>

\* VerboseTimingGuard::run(f): `let _timer = self;`, then f is called
VerboseTimingGuard_run(i) ==
    /\ guards[i].live
    /\ guards[i].wrapper = "verbose"
    /\ i \notin in_run
    /\ pc[guards[i].thread] = "idle"
    /\ in_run' = in_run \cup {i}
    /\ last_op' = Op("run", guards[i].thread, guards[i].ref, i)
    /\ UNCHANGED <<virtual_map, bound_to, ref_dropped, newVars, sinkVars,
                   cacheVars, refs, guards, threadVars, panicked, stdout,
                   closure_runs>>

\* f() has returned: _timer goes out of scope, as in TimingGuard_drop
VerboseTimingGuard_run_return(i) ==
    /\ i \in in_run
    /\ pc[guards[i].thread] = "idle"
    /\ in_run' = in_run \ {i}
    /\ last_op' = Op("run_return", guards[i].thread, guards[i].ref, i)
    /\ guards' = [guards EXCEPT ![i] = Consumed(@)]
    /\ stdout' = IF guards[i].start_instant
                 THEN Append(stdout, [what |-> guards[i].what, at |-> Len(events)])
                 ELSE stdout
    /\ events' = IF guards[i].inner = "Some"
                 THEN Append(events, IntervalEvent(guards[i], guards[i].event_id))
                 ELSE events
    /\ UNCHANGED <<virtual_map, bound_to, ref_dropped, newVars, strings,
                   intervals, cacheVars, refs, threadVars, panicked,
                   closure_runs>>

finish_with_query_invocation_id(i, q) ==
    /\ guards[i].live
    /\ guards[i].wrapper = "plain"
    /\ pc[guards[i].thread] = "idle"
    /\ last_op' = [Op("finish_with_query_invocation_id", guards[i].thread,
                      guards[i].ref, i) EXCEPT !.q = q]
    /\ guards' = [guards EXCEPT ![i] = Consumed(@)]
    /\ events' = IF guards[i].inner = "Some"
                 THEN Append(events,
                             IntervalEvent(guards[i], OverrideEventId(guards[i], q)))
                 ELSE events
    /\ UNCHANGED <<hostVars, newVars, strings, intervals, cacheVars, refs, threadVars,
                   panicked, stdout, closure_runs>>

----------------------------------------------------------------------------
(* SelfProfiler: binding virtual ids to concrete strings                   *)

\* StringId::new_virtual(id): the id in the namespace of virtual ids
new_virtual(q) == [tag |-> "Virtual", id |-> q]

\* the calls explored bind at most MaxBindings (id, string) pairs in all
CanBind(pairs) == Cardinality(bound_to \cup pairs) <= MaxBindings

\* self.profiler.map_virtual_to_concrete_string(from, to)
map_query_invocation_id_to_string(from, to) ==
    /\ constructed = "Ok"
    /\ CanBind({<<from, to>>})
    /\ virtual_map' = virtual_map \cup {<<new_virtual(from), to>>}
    /\ bound_to' = bound_to \cup {<<from, to>>}
    /\ last_op' = [Op("map_query_invocation_id_to_string", 0, 0, 0)
                      EXCEPT !.q = from]
    /\ UNCHANGED <<newVars, sinkVars, cacheVars, refs, guards, threadVars,
                   panicked, stdout, closure_runs, ref_dropped, in_run>>

\* from.map(|qid| StringId::new_virtual(qid.0))
\* faulty variant: only one id of the iterator is converted
BulkFrom_Mutant(from) ==
    IF from = {} THEN {} ELSE {new_virtual(CHOOSE q \in from : TRUE)}

BulkFrom(from) == {new_virtual(q) : q \in from}

\* self.profiler.bulk_map_virtual_to_single_concrete_string(from, to)
bulk_map_query_invocation_id_to_single_string(from, to) ==
    /\ constructed = "Ok"
    /\ CanBind(from \X {to})
    /\ virtual_map' = virtual_map \cup (BulkFrom(from) \X {to})
    /\ bound_to' = bound_to \cup (from \X {to})
    /\ last_op' = Op("bulk_map_query_invocation_id_to_single_string", 0, 0, 0)
    /\ UNCHANGED <<newVars, sinkVars, cacheVars, refs, guards, threadVars,
                   panicked, stdout, closure_runs, ref_dropped, in_run>>

\* the concrete strings the sink's bindings give for an identifier
Resolve(event_id) == {p[2] : p \in {x \in virtual_map : x[1] = event_id}}

----------------------------------------------------------------------------
(* Lifetimes: the guards borrow the SelfProfilerRef, which holds the Arc   *)

LiveRefs == DOMAIN refs \ ref_dropped

\* TimingGuard<'_> and the calls in progress borrow &self of reference r
\* faulty variant: the guards hold no borrow of the reference
Borrowed_Mutant(r) == FALSE

Borrowed(r) ==
    \/ \E i \in DOMAIN guards : guards[i].live /\ guards[i].ref = r
    \/ \E t \in Threads : pc[t] # "idle" /\ local[t].ref = r

\* the last Arc<SelfProfiler> is gone: the profiler and its sink are dropped
ProfilerDropped ==
    /\ \E r \in DOMAIN refs : refs[r].profiler
    /\ \A r \in DOMAIN refs : refs[r].profiler => r \in ref_dropped

\* a SelfProfilerRef goes out of scope
SelfProfilerRef_drop(r) ==
    /\ r \in LiveRefs
    /\ ~Borrowed(r)
    /\ ref_dropped' = ref_dropped \cup {r}
    /\ last_op' = Op("SelfProfilerRef::drop", 0, r, 0)
    /\ UNCHANGED <<newVars, sinkVars, cacheVars, refs, guards, threadVars,
                   panicked, stdout, closure_runs, virtual_map, bound_to, in_run>>

----------------------------------------------------------------------------

Next ==
    \/ \E p, v, x \in BOOLEAN : SelfProfilerRef_new(p, v, x)
    \/ \E r \in DOMAIN refs : SelfProfilerRef_clone(r)
    \/ \E t \in Workers, r \in DOMAIN refs, s \in Labels : generic_activity(t, r, s)
    \/ \E t \in Workers, r \in DOMAIN refs, s \in Labels :
          verbose_generic_activity(t, r, s)
    \/ \E t \in Workers, r \in DOMAIN refs, s \in Labels :
          extra_verbose_generic_activity(t, r, s)
    \/ \E t \in Workers, r \in DOMAIN refs : query_provider(t, r)
    \/ \E t \in Workers, r \in DOMAIN refs, q \in QueryIds : query_cache_hit(t, r, q)
    \/ \E t \in Workers, r \in DOMAIN refs : query_blocked(t, r)
    \/ \E t \in Workers, r \in DOMAIN refs : incr_cache_loading(t, r)
    \/ \E t \in Workers, r \in DOMAIN refs : with_profiler(t, r)
    \/ \E t \in Threads : ReadLock(t)
    \/ \E t \in Threads : ReadLookup(t)
    \/ \E t \in Threads : WriteLock(t)
    \/ \E t \in Threads : WriteInsert(t)
    \/ \E i \in DOMAIN guards : TimingGuard_drop(i)
    \/ \E i \in DOMAIN guards, q \in QueryIds : finish_with_query_invocation_id(i, q)

Spec == Init /\ [][Next]_vars

\* the callers of the string cache alone: M threads, N calls each
NextIntern ==
    \/ \E t \in Threads, s \in Labels : get_or_alloc_cached_string(t, s)
    \/ \E t \in Threads : ReadLock(t)
    \/ \E t \in Threads : ReadLookup(t)
    \/ \E t \in Threads : WriteLock(t)
    \/ \E t \in Threads : WriteInsert(t)

SpecIntern == Init /\ [][NextIntern]_vars

\* the same callers under a fair lock: a thread holding the lock goes on
\* running, and a thread waiting for the lock gets it if it is free again and
\* again
FairSpecIntern ==
    /\ Init
    /\ [][NextIntern]_vars
    /\ \A t \in Threads :
          /\ SF_vars(ReadLock(t))
          /\ WF_vars(ReadLookup(t))
          /\ SF_vars(WriteLock(t))
          /\ WF_vars(WriteInsert(t))

\* the events that carry a virtual id and the calls that bind virtual ids
NextRemap ==
    \/ \E p, v, x \in BOOLEAN : SelfProfilerRef_new(p, v, x)
    \/ \E t \in Workers, r \in DOMAIN refs : query_provider(t, r)
    \/ \E t \in Workers, r \in DOMAIN refs, q \in QueryIds : query_cache_hit(t, r, q)
    \/ \E i \in DOMAIN guards : TimingGuard_drop(i)
    \/ \E i \in DOMAIN guards, q \in QueryIds : finish_with_query_invocation_id(i, q)
    \/ \E q \in QueryIds, to \in DOMAIN strings :
          map_query_invocation_id_to_string(q, to)
    \/ \E from \in SUBSET QueryIds, to \in DOMAIN strings :
          bulk_map_query_invocation_id_to_single_string(from, to)

SpecRemap == Init /\ [][NextRemap]_vars

\* the references' scopes: the entry points that start intervals, the guards,
\* and the drop of the references
NextLife ==
    \/ \E p, v, x \in BOOLEAN :
          (p => ~ProfilerDropped) /\ SelfProfilerRef_new(p, v, x)
    \/ \E r \in LiveRefs : SelfProfilerRef_clone(r)
    \/ \E r \in LiveRefs : SelfProfilerRef_drop(r)
    \/ \E t \in Workers, r \in LiveRefs, s \in Labels : generic_activity(t, r, s)
    \/ \E t \in Workers, r \in LiveRefs, s \in Labels :
          verbose_generic_activity(t, r, s)
    \/ \E t \in Workers, r \in LiveRefs : query_provider(t, r)
    \/ \E t \in Workers, r \in LiveRefs : query_blocked(t, r)
    \/ \E t \in Workers, r \in LiveRefs : incr_cache_loading(t, r)
    \/ \E t \in Threads : ReadLock(t)
    \/ \E t \in Threads : ReadLookup(t)
    \/ \E t \in Threads : WriteLock(t)
    \/ \E t \in Threads : WriteInsert(t)
    \/ \E i \in DOMAIN guards : TimingGuard_drop(i)
    \/ \E i \in DOMAIN guards, q \in QueryIds : finish_with_query_invocation_id(i, q)

SpecLife == Init /\ [][NextLife]_vars

\* the operations that depend on the profiler handle alone
NextHandle ==
    \/ \E p, v, x \in BOOLEAN : SelfProfilerRef_new(p, v, x)
    \/ \E r \in DOMAIN refs : SelfProfilerRef_clone(r)
    \/ \E t \in Workers, r \in DOMAIN refs : with_profiler(t, r)
    \/ \E t \in Workers, r \in DOMAIN refs : enabled(t, r)
    \/ \E t \in Workers, r \in DOMAIN refs : query_provider(t, r)
    \/ \E i \in DOMAIN guards : TimingGuard_drop(i)

SpecHandle == Init /\ [][NextHandle]_vars

\* the strings allocated after construction
LaterStrings == DOMAIN strings \ DOMAIN KindStrings

\* the identifiers the string cache holds
CachedIds == {string_cache[l] : l \in Labels} \ {0}

\* everything that runs beside the string cache: interning by the host and by
\* generic_activity, alloc_string, the bindings of virtual ids, the recording
\* of events and the closing of guards
NextCache ==
    \/ \E p \in BOOLEAN : SelfProfilerRef_new(p, FALSE, FALSE)
    \/ \E t \in Workers, s \in Labels : get_or_alloc_cached_string(t, s)
    \/ \E t \in Workers, r \in DOMAIN refs, s \in Labels : generic_activity(t, r, s)
    \/ \E t \in Threads : ReadLock(t)
    \/ \E t \in Threads : ReadLookup(t)
    \/ \E t \in Threads : WriteLock(t)
    \/ \E t \in Threads : WriteInsert(t)
    \/ \E s \in Labels : alloc_string(s)
    \/ \E q \in QueryIds, to \in CachedIds :
          map_query_invocation_id_to_string(q, to)
    \/ \E from \in SUBSET QueryIds, to \in CachedIds :
          bulk_map_query_invocation_id_to_single_string(from, to)
    \/ \E i \in DOMAIN guards : TimingGuard_drop(i)

SpecCache == Init /\ [][NextCache]_vars

\* the verbose guards: closed by scope exit or handed to run(f), with f
\* recording cache hits meanwhile
NextVerbose ==
    \/ \E p, v \in BOOLEAN : SelfProfilerRef_new(p, v, FALSE)
    \/ \E t \in Workers, r \in DOMAIN refs, s \in Labels :
          verbose_generic_activity(t, r, s)
    \/ \E t \in Workers, r \in DOMAIN refs, q \in QueryIds : query_cache_hit(t, r, q)
    \/ \E t \in Threads : ReadLock(t)
    \/ \E t \in Threads : ReadLookup(t)
    \/ \E t \in Threads : WriteLock(t)
    \/ \E t \in Threads : WriteInsert(t)
    \/ \E i \in DOMAIN guards \ in_run : TimingGuard_drop(i)
    \/ \E i \in DOMAIN guards : VerboseTimingGuard_run(i)
    \/ \E i \in DOMAIN guards : VerboseTimingGuard_run_return(i)

SpecVerbose == Init /\ [][NextVerbose]_vars

----------------------------------------------------------------------------
(* Properties of SelfProfiler::new, checked under SpecNew.                 *)

NewOk == constructed = "Ok"

\* the set of the elements of a sequence
Range(v) == {v[i] : i \in DOMAIN v}

\* the bit position the source assigns to each category name
CategoryBit ==
    [n \in KnownNames \ {"none", "all"} |->
        CASE n = "generic-activity" -> 0
          [] n = "query-provider" -> 1
          [] n = "query-cache-hit" -> 2
          [] n = "query-blocked" -> 3
          [] n = "incr-cache-load" -> 4
          [] n = "query-keys" -> 5]

\* C5: the mask built from the one-element list [name] has exactly the bit of
\* that category set; for ["all"] every category bit is set; for ["none"] no
\* bit is set.
C5_SingleNameMask ==
    (NewOk /\ event_filters.is_some /\ Len(event_filters.list) = 1) =>
        LET name == event_filters.list[1]
        IN /\ name \in DOMAIN CategoryBit =>
                 event_filter_mask = {CategoryBit[name]}
           /\ name = "all" =>
                 \A n \in DOMAIN CategoryBit : CategoryBit[n] \in event_filter_mask
           /\ name = "none" => event_filter_mask = {}

C5_Witness ==
    /\ NewOk
    /\ event_filters = SomeFilters(<<"query-cache-hit">>)
    /\ event_filter_mask = {2}

\* the default combination: GenericActivity, QueryProvider, QueryBlocked,
\* IncrementalCacheLoad
DefaultBits == {0, 1, 3, 4}

\* C6 as stated: an absent list and a present list with zero names both give
\* the default mask.
C6_EmptyOrAbsentIsDefault ==
    (NewOk /\ (~event_filters.is_some \/ event_filters.list = <<>>)) =>
        event_filter_mask = DefaultBits

\* C6 amended: an absent list gives the default mask {GenericActivity,
\* QueryProvider, QueryBlocked, IncrementalCacheLoad}; a present list with
\* zero names gives the empty mask.
C6_AbsentIsDefault ==
    /\ (NewOk /\ ~event_filters.is_some) => event_filter_mask = DefaultBits
    /\ (NewOk /\ event_filters.is_some /\ event_filters.list = <<>>) =>
            event_filter_mask = {}

C6_Witness ==
    /\ NewOk
    /\ ~event_filters.is_some
    /\ event_filter_mask = DefaultBits

\* the bits a recognized name stands for
NameBits(n) ==
    IF n = "all" THEN 0..31
    ELSE IF n = "none" THEN {}
    ELSE {CategoryBit[n]}

\* the mask the claim describes: `none` resets it to empty, `all` sets it to
\* full, any other recognized name is OR-combined
RECURSIVE ResettingMask(_, _)
ResettingMask(mask, list) ==
    IF list = <<>> THEN mask
    ELSE LET n == Head(list)
         IN ResettingMask(IF n = "none" THEN {}
                          ELSE IF n = "all" THEN 0..31
                          ELSE IF n \in KnownNames THEN mask \cup NameBits(n)
                          ELSE mask,
                          Tail(list))

\* C7 as stated: processing the list in order, `none` sets the mask to empty
\* and `all` sets it to full, other recognized names are OR-combined.
C7_NoneResetsMask ==
    (NewOk /\ event_filters.is_some) =>
        event_filter_mask = ResettingMask({}, event_filters.list)

\* C7 amended: every recognized name, `none` and `all` included, is
\* OR-combined into the mask: `none` contributes no bit (it clears nothing)
\* and `all` contributes every bit, so the mask does not depend on the order
\* of the names; ["query-provider", "none"] yields exactly QueryProvider.
C7_AllNamesOrCombined ==
    (NewOk /\ event_filters.is_some) =>
        /\ event_filter_mask =
              UNION {NameBits(n) : n \in Range(event_filters.list) \cap KnownNames}
        /\ event_filters.list = <<"query-provider", "none">> =>
              event_filter_mask = {1}

C7_Witness ==
    /\ NewOk
    /\ event_filters = SomeFilters(<<"query-provider", "none">>)
    /\ event_filter_mask = {1}

\* C8: with recognized and unrecognized names mixed, construction succeeds,
\* the mask is the OR of exactly the recognized names, and the unknown names
\* are reported in one warning that lists each distinct unknown name once, in
\* sorted order; without unknown names there is no warning.
C8_UnknownNamesReportedOnce ==
    /\ (constructed # "pending" /\ fs_ok.dir /\ fs_ok.sink) => NewOk
    /\ (NewOk /\ event_filters.is_some) =>
          LET list == event_filters.list
              unknown == Range(list) \ KnownNames
          IN /\ event_filter_mask =
                   UNION {NameBits(n) : n \in Range(list) \cap KnownNames}
             /\ unknown = {} => warnings = <<>>
             /\ unknown # {} =>
                   /\ Len(warnings) = 1
                   /\ Range(warnings[1]) = unknown
                   /\ \A i, j \in DOMAIN warnings[1] :
                         i < j => StrLess(warnings[1][i], warnings[1][j])
    /\ (NewOk /\ ~event_filters.is_some) => warnings = <<>>

C8_Witness ==
    /\ NewOk
    /\ event_filters = SomeFilters(<<"foo", "query-provider", "foo">>)
    /\ warnings = << <<"foo">> >>
    /\ event_filter_mask = {1}

----------------------------------------------------------------------------
(* Properties of the string cache, checked under SpecIntern.               *)

\* the allocate-string calls the sink has seen for a label
SinkAllocs(s) == {i \in DOMAIN strings : strings[i] = s}

\* C1: however the lock acquisitions of M callers making N calls each
\* interleave, the sink allocates a label at most once, exactly once as soon
\* as a call for it has returned, and every call for it returns that one
\* identifier.
C1_OneAllocationPerLabel ==
    \A s \in Labels :
        /\ Cardinality(SinkAllocs(s)) <= 1
        /\ intern_allocs[s] = Cardinality(SinkAllocs(s))
        /\ \A ret \in returned :
              ret[1] = s => /\ SinkAllocs(s) = {ret[2]}
                            /\ string_cache[s] = ret[2]

C1_Witness ==
    /\ \A t \in Threads : ncalls[t] = MaxCalls /\ pc[t] = "idle"
    /\ returned = {<<"typeck", Len(KindStrings) + 1>>}
    /\ SinkAllocs("typeck") = {Len(KindStrings) + 1}
    /\ SinkAllocs("codegen") = {}

----------------------------------------------------------------------------
(* Properties of the entry points and the guards, checked under Spec.      *)

\* the category bit each per-category entry point checks
EntryBit ==
    [cat \in {"generic_activity", "query_provider", "query_cache_hit",
              "query_blocked", "incr_cache_loading"} |->
        CASE cat = "generic_activity" -> 0
          [] cat = "query_provider" -> 1
          [] cat = "query_cache_hit" -> 2
          [] cat = "query_blocked" -> 3
          [] cat = "incr_cache_loading" -> 4]

GuardEntryPoints ==
    {"generic_activity", "verbose_generic_activity",
     "extra_verbose_generic_activity", "query_provider", "query_blocked",
     "incr_cache_loading"}

AllEntryPoints == GuardEntryPoints \cup {"query_cache_hit", "with_profiler"}

\* the step handed out one more guard, a no-op one
HandsOutNoneGuard ==
    /\ Len(guards') = Len(guards) + 1
    /\ guards'[Len(guards')].inner = "None"
    /\ \A i \in DOMAIN guards : guards'[i] = guards[i]

SharedUntouched == UNCHANGED <<strings, events, intervals, string_cache,
                               lock_readers, lock_writer>>

GuardDisabled(g) ==
    /\ g.cat \in DOMAIN EntryBit
    /\ EntryBit[g.cat] \notin refs[g.ref].event_filter_mask

\* C2: a per-category entry point whose bit is not in the reference's mask
\* returns a no-op guard (query_cache_hit: nothing) and leaves the sink, the
\* string cache and its lock untouched, starts no interning call, and closing
\* the guard it returned makes no sink call either.
C2_DisabledIsNoOp ==
    [][ /\ ( /\ last_op'.op \in DOMAIN EntryBit
             /\ EntryBit[last_op'.op] \notin refs[last_op'.ref].event_filter_mask )
           => /\ SharedUntouched
              /\ pc' = pc
              /\ ~panicked'
              /\ IF last_op'.op = "query_cache_hit"
                 THEN guards' = guards
                 ELSE HandsOutNoneGuard
        /\ ( /\ last_op'.op \in {"drop", "finish_with_query_invocation_id"}
             /\ GuardDisabled(guards[last_op'.guard]) )
           => /\ SharedUntouched
              /\ guards[last_op'.guard].inner = "None"
      ]_vars

C2_Witness ==
    /\ last_op.op = "drop"
    /\ guards[last_op.guard].cat = "query_blocked"
    /\ refs[last_op.ref].profiler
    /\ refs[last_op.ref].event_filter_mask = {1, 2}
    /\ ~guards[last_op.guard].live
    /\ guards[last_op.guard].inner = "None"
    /\ events = <<>>
    /\ intervals = 0

\* the interval events the sink recorded for the interval of guard g
Finishes(g) ==
    {i \in DOMAIN events :
        events[i].type = "interval" /\ events[i].start = g.start}

OpenGuards == {i \in DOMAIN guards : guards[i].inner = "Some"}

\* C3: the interval of an Open guard is finished on the sink exactly once,
\* when the guard is closed by drop or by finish_with_query_invocation_id:
\* no interval is finished while its guard is live, none is finished twice,
\* and closing a None guard records nothing.
C3_ClosedExactlyOnce ==
    /\ \A i \in OpenGuards :
          /\ guards[i].live => Finishes(guards[i]) = {}
          /\ ~guards[i].live => Cardinality(Finishes(guards[i])) = 1
          /\ \A j \in OpenGuards : guards[i].start = guards[j].start => i = j
    /\ Cardinality({i \in DOMAIN events : events[i].type = "interval"})
          = Cardinality({i \in OpenGuards : ~guards[i].live})
    /\ intervals = Cardinality(OpenGuards)

C3_Witness ==
    /\ Len(guards) = 2
    /\ \A i \in DOMAIN guards : ~guards[i].live
    /\ guards[1].inner = "Some"
    /\ guards[2].inner = "None"
    /\ last_op.op = "finish_with_query_invocation_id"
    /\ last_op.guard = 2
    /\ Len(events) = 1

\* C4: closing an Open guard with finish_with_query_invocation_id(q) records
\* the interval with the identifier Virtual(q), not the one given at the
\* start; closing it by scope exit records the identifier given at the start.
C4_OverrideEventId ==
    [][ /\ ( /\ last_op'.op = "finish_with_query_invocation_id"
             /\ guards[last_op'.guard].inner = "Some" )
           => /\ Len(events') = Len(events) + 1
              /\ events'[Len(events')].type = "interval"
              /\ events'[Len(events')].start = guards[last_op'.guard].start
              /\ events'[Len(events')].event_id =
                    [tag |-> "Virtual", id |-> last_op'.q]
              /\ events'[Len(events')].event_id # guards[last_op'.guard].event_id
        /\ ( /\ last_op'.op = "drop"
             /\ guards[last_op'.guard].inner = "Some" )
           => /\ Len(events') = Len(events) + 1
              /\ events'[Len(events')].type = "interval"
              /\ events'[Len(events')].start = guards[last_op'.guard].start
              /\ events'[Len(events')].event_id = guards[last_op'.guard].event_id
      ]_vars

C4_Witness ==
    /\ last_op.op = "finish_with_query_invocation_id"
    /\ last_op.q = 42
    /\ guards[last_op.guard].cat = "query_provider"
    /\ guards[last_op.guard].event_id = [tag |-> "INVALID", id |-> 0]
    /\ events = << [type |-> "interval", event_kind |-> 1,
                    event_id |-> [tag |-> "Virtual", id |-> 42],
                    thread_id |-> 1, start |-> 1] >>

\* C9: a SelfProfilerRef built without a profiler has the empty mask, and
\* whatever its verbosity flags every entry point called on it leaves the
\* sink, the string cache and its lock untouched, starts no interning call,
\* does not run the closure of with_profiler and never reaches the unwrap of
\* cold_call on None.
C9_NoProfilerIsNoOp ==
    /\ [](/\ ~panicked
          /\ \A r \in DOMAIN refs :
                ~refs[r].profiler => refs[r].event_filter_mask = {}
          /\ \A i \in DOMAIN guards :
                ~refs[guards[i].ref].profiler => guards[i].inner = "None")
    /\ [][ ( /\ last_op'.op \in AllEntryPoints
             /\ ~refs[last_op'.ref].profiler )
           => /\ SharedUntouched
              /\ pc' = pc
              /\ closure_runs' = closure_runs
              /\ last_op'.op \in GuardEntryPoints => HandsOutNoneGuard
              /\ last_op'.op \notin GuardEntryPoints => guards' = guards
       ]_vars

C9_Witness ==
    /\ Len(refs) = 1
    /\ ~refs[1].profiler
    /\ refs[1].print_verbose_generic_activities
    /\ refs[1].print_extra_verbose_generic_activities
    /\ event_filter_mask = 0..31
    /\ Len(guards) = 2
    /\ guards[1].cat = "verbose_generic_activity"
    /\ guards[2].cat = "query_provider"
    /\ last_op.op = "with_profiler"
    /\ closure_runs = 0
    /\ events = <<>>

----------------------------------------------------------------------------
(* Properties of the recorded events, checked under Spec.                  *)

IntervalEntryPoints ==
    {"generic_activity", "verbose_generic_activity", "query_provider",
     "query_blocked", "incr_cache_loading"}

\* the label of the event kind each interval entry point records
CategoryKind ==
    [cat \in IntervalEntryPoints |->
        CASE cat \in {"generic_activity", "verbose_generic_activity"}
                -> "GenericActivity"
          [] cat = "query_provider" -> "Query"
          [] cat = "query_blocked" -> "QueryBlocked"
          [] cat = "incr_cache_loading" -> "IncrementalLoadResult"]

\* the category bit each interval entry point passes to exec
IntervalBit ==
    [cat \in IntervalEntryPoints |->
        IF cat = "verbose_generic_activity" THEN 0 ELSE EntryBit[cat]]

\* the interval entry point that handed out guard g was enabled
GuardEnabled(g) ==
    /\ g.cat \in IntervalEntryPoints
    /\ IntervalBit[g.cat] \in refs[g.ref].event_filter_mask

\* C11: an enabled interval entry point hands out an Open guard whose event
\* kind is the label allocated at construction for its category and whose
\* start identifier is the interned label's id for generic_activity and
\* INVALID for query_provider, query_blocked and incr_cache_loading; closing
\* the guard records exactly one interval event of that kind; and the kind of
\* every recorded event is one of the five labels allocated at construction.
C11_KindAndStartIdPerCategory ==
    /\ \A i \in DOMAIN guards :
          LET g == guards[i]
          IN /\ GuardEnabled(g) => g.inner = "Some"
             /\ (g.inner = "Some") =>
                   /\ GuardEnabled(g)
                   /\ g.event_kind \in DOMAIN strings
                   /\ strings[g.event_kind] = CategoryKind[g.cat]
                   /\ IF g.cat \in {"generic_activity", "verbose_generic_activity"}
                      THEN /\ g.event_id.tag = "Label"
                           /\ g.event_id.id \in DOMAIN strings
                           /\ strings[g.event_id.id] \in Labels
                           /\ string_cache[strings[g.event_id.id]] = g.event_id.id
                           /\ g.wrapper = "verbose" =>
                                 strings[g.event_id.id] = g.what
                      ELSE g.event_id = INVALID
                   /\ ~g.live =>
                         /\ Cardinality(Finishes(g)) = 1
                         /\ \A e \in Finishes(g) :
                               /\ events[e].event_kind = g.event_kind
                               /\ events[e].thread_id = g.thread
    /\ \A e \in DOMAIN events :
          /\ events[e].event_kind \in 1..Len(KindStrings)
          /\ strings[events[e].event_kind] = KindStrings[events[e].event_kind]
          /\ events[e].type = "interval" =>
                \E i \in DOMAIN guards :
                    guards[i].inner = "Some" /\ e \in Finishes(guards[i])

C11_Witness ==
    /\ Len(guards) = 2
    /\ guards[1].cat = "generic_activity"
    /\ guards[2].cat = "query_blocked"
    /\ \A i \in DOMAIN guards : ~guards[i].live /\ guards[i].inner = "Some"
    /\ guards[1].event_id = from_label(string_cache["codegen"])
    /\ last_op.op = "drop"
    /\ Len(events) = 2
    /\ strings[events[1].event_kind] = "QueryBlocked"
    /\ strings[events[2].event_kind] = "GenericActivity"

\* C12: query_cache_hit(q) with the query-cache-hit bit set records exactly
\* one instant event, of kind QueryCacheHit, with the identifier Virtual(q)
\* and the caller's thread id, and starts or finishes no interval; with the
\* bit unset it records nothing.
C12_CacheHitInstantEvent ==
    [][ (last_op'.op = "query_cache_hit") =>
           /\ UNCHANGED <<strings, intervals, guards, string_cache,
                          lock_readers, lock_writer, pc>>
           /\ IF 2 \in refs[last_op'.ref].event_filter_mask
              THEN /\ Len(events') = Len(events) + 1
                   /\ \A i \in DOMAIN events : events'[i] = events[i]
                   /\ events'[Len(events')].type = "instant"
                   /\ strings[events'[Len(events')].event_kind] = "QueryCacheHit"
                   /\ events'[Len(events')].event_id =
                         [tag |-> "Virtual", id |-> last_op'.q]
                   /\ events'[Len(events')].thread_id = last_op'.thread
              ELSE events' = events
      ]_vars

C12_Witness ==
    /\ last_op.op = "query_cache_hit"
    /\ last_op.q = 7
    /\ refs[last_op.ref].event_filter_mask = {1, 2}
    /\ events = << [type |-> "instant", event_kind |-> 5,
                    event_id |-> [tag |-> "Virtual", id |-> 7],
                    thread_id |-> 1, start |-> 0] >>
    /\ intervals = 0
    /\ guards = <<>>

\* the step printed exactly one line, for the activity `what`
PrintsOneLine(what) ==
    /\ Len(stdout') = Len(stdout) + 1
    /\ \A i \in DOMAIN stdout : stdout'[i] = stdout[i]
    /\ stdout'[Len(stdout')].what = what

C15_VerbosePrintAndEventIndependent ==
    /\ [](\A i \in DOMAIN guards :
             (guards[i].cat = "verbose_generic_activity") =>
                /\ guards[i].start_instant
                      = refs[guards[i].ref].print_verbose_generic_activities
                /\ (guards[i].inner = "Some")
                      = (0 \in refs[guards[i].ref].event_filter_mask))
    /\ [][ ( /\ last_op'.op = "drop"
             /\ guards[last_op'.guard].cat = "verbose_generic_activity" )
           => LET g == guards[last_op'.guard]
              IN /\ IF refs[g.ref].print_verbose_generic_activities
                    THEN PrintsOneLine(g.what)
                    ELSE stdout' = stdout
                 /\ IF 0 \in refs[g.ref].event_filter_mask
                    THEN /\ Len(events') = Len(events) + 1
                         /\ events'[Len(events')].type = "interval"
                         /\ strings[events'[Len(events')].event_kind]
                               = "GenericActivity"
                         /\ events'[Len(events')].event_id.tag = "Label"
                         /\ strings[events'[Len(events')].event_id.id] = g.what
                    ELSE events' = events
       ]_vars

C15_Witness ==
    /\ last_op.op = "drop"
    /\ guards[last_op.guard].cat = "verbose_generic_activity"
    /\ refs[last_op.ref].profiler
    /\ refs[last_op.ref].event_filter_mask = {1, 2}
    /\ refs[last_op.ref].print_verbose_generic_activities
    /\ Len(stdout) = 1
    /\ stdout[1].what = "codegen"
    /\ events = <<>>
    /\ intervals = 0

\* the combination the other way round: the interval is recorded, no line is
\* printed
C15_WitnessSilent ==
    /\ last_op.op = "drop"
    /\ guards[last_op.guard].cat = "verbose_generic_activity"
    /\ ~refs[last_op.ref].print_verbose_generic_activities
    /\ 0 \in refs[last_op.ref].event_filter_mask
    /\ stdout = <<>>
    /\ Len(events) = 1

----------------------------------------------------------------------------
(* Failure of SelfProfiler::new, checked under SpecNew.                    *)

\* C16: SelfProfiler::new returns an error, and so no profiler, exactly when
\* the output directory cannot be created or the sink cannot be opened; when
\* the directory fails the sink is never opened, and on either failure no
\* kind label is allocated and no filter name is processed: no string, no
\* mask bit, no warning.
C16_ConstructionFailure ==
    (constructed # "pending") =>
        /\ (constructed = "Err") = (~fs_ok.dir \/ ~fs_ok.sink)
        /\ ~fs_ok.dir => (~dir_created /\ ~sink_opened)
        /\ (constructed = "Err") =>
              /\ ~sink_opened
              /\ strings = <<>>
              /\ event_kinds = NoEventKinds
              /\ event_filter_mask = {}
              /\ warnings = <<>>

C16_Witness ==
    /\ constructed = "Err"
    /\ fs_ok.dir
    /\ ~fs_ok.sink
    /\ event_filters = SomeFilters(<<"foo", "all">>)
    /\ dir_created
    /\ ~sink_opened
    /\ strings = <<>>
    /\ warnings = <<>>
    /\ event_filter_mask = {}

----------------------------------------------------------------------------
(* Properties of the virtual-id bindings, checked under SpecRemap.         *)

\* the strings the host bound query invocation id q to
BoundTo(q) == {p[2] : p \in {x \in bound_to : x[1] = q}}

\* C13: the sink holds exactly the bindings the host issued, one by one or in
\* bulk, under the identifier Virtual(q) that the events of invocation q
\* carry; so once q is bound to the single string L, every event recorded
\* with Virtual(q), earlier or later, resolves to L, and a bulk binding
\* leaves the sink as the individual bindings of its ids would.
C13_VirtualIdResolves ==
    /\ virtual_map = {<<[tag |-> "Virtual", id |-> p[1]], p[2]>> : p \in bound_to}
    /\ \A q \in QueryIds :
          \A e \in DOMAIN events :
              (events[e].event_id = [tag |-> "Virtual", id |-> q]
                  /\ Cardinality(BoundTo(q)) = 1)
                  => Resolve(events[e].event_id) = BoundTo(q)

C13_Witness ==
    /\ last_op.op = "bulk_map_query_invocation_id_to_single_string"
    /\ bound_to = {<<7, 1>>, <<42, 1>>}
    /\ Len(events) = 2
    /\ events[1].type = "interval"
    /\ events[1].event_id = [tag |-> "Virtual", id |-> 42]
    /\ events[2].type = "instant"
    /\ events[2].event_id = [tag |-> "Virtual", id |-> 7]
    /\ \A e \in DOMAIN events : Resolve(events[e].event_id) = {1}

----------------------------------------------------------------------------
(* Properties of the lifetimes, checked under SpecLife.                    *)

\* C17: while a guard is Open, and while a call is inside the profiler, the
\* reference the guard was handed out by has not been dropped and the
\* SelfProfiler has not been torn down; every interval event was recorded by
\* a guard closed before its reference was dropped.
C17_ProfilerOutlivesOpenGuards ==
    /\ \A i \in DOMAIN guards :
          (guards[i].live /\ guards[i].inner = "Some") =>
              /\ guards[i].ref \notin ref_dropped
              /\ ~ProfilerDropped
    /\ \A t \in Threads : (pc[t] # "idle") => ~ProfilerDropped
    /\ \A i \in DOMAIN guards :
          guards[i].ref \in ref_dropped => ~guards[i].live

C17_Witness ==
    /\ ProfilerDropped
    /\ Len(refs) = 2
    /\ ref_dropped = {1, 2}
    /\ last_op.op = "SelfProfilerRef::drop"
    /\ Len(guards) = 2
    /\ \A i \in DOMAIN guards : guards[i].inner = "Some" /\ ~guards[i].live
    /\ guards[1].ref = 1
    /\ guards[2].ref = 2
    /\ Len(events) = 2

----------------------------------------------------------------------------
(* Properties of the profiler handle, checked under SpecHandle.            *)

\* C18: with_profiler(f) runs f exactly once if the reference holds a
\* profiler and not at all otherwise, and enabled() returns true exactly when
\* it holds one; neither depends on the mask, so under the filter list
\* ["none"] enabled() is true and f runs although the mask is empty.
C18_HandleDecidesNotMask ==
    [][ /\ (last_op'.op = "with_profiler") =>
              /\ closure_runs' =
                    closure_runs + (IF refs[last_op'.ref].profiler THEN 1 ELSE 0)
              /\ SharedUntouched
              /\ UNCHANGED <<guards, pc, stdout>>
        /\ (last_op'.op = "enabled") =>
              /\ last_op'.ret = refs[last_op'.ref].profiler
              /\ closure_runs' = closure_runs
              /\ SharedUntouched
              /\ UNCHANGED <<guards, pc, stdout>>
      ]_vars

C18_Witness ==
    /\ event_filters = SomeFilters(<<"none">>)
    /\ last_op.op = "enabled"
    /\ last_op.ret
    /\ refs[last_op.ref].profiler
    /\ refs[last_op.ref].event_filter_mask = {}
    /\ closure_runs = 1
    /\ Len(guards) = 1
    /\ guards[1].inner = "None"
    /\ events = <<>>

----------------------------------------------------------------------------
(* Properties of the lock of the string cache, checked under SpecIntern    *)
(* and FairSpecIntern.                                                     *)

Writers == {t \in Threads : pc[t] = "write"}

\* C19: any number of callers hold the shared lock at once, at most one holds
\* the exclusive lock and then none holds the shared lock; the cache is
\* modified and the sink allocates a string for it only in a step of the
\* holder of the exclusive lock; and a caller that finds its label under the
\* shared lock returns without acquiring the exclusive lock.
C19_LockProtocol ==
    /\ [](/\ lock_readers = {t \in Threads : pc[t] = "read"}
          /\ Cardinality(Writers) <= 1
          /\ \A t \in Writers : lock_writer = t
          /\ (lock_writer # 0) =>
                (lock_writer \in Writers /\ lock_readers = {}))
    /\ [][ /\ (string_cache' # string_cache \/ strings' # strings) =>
                 /\ lock_writer \in Writers
                 /\ last_op'.thread = lock_writer
                 /\ last_op'.op = "or_insert_with"
           /\ \A t \in Threads :
                 /\ ( /\ pc[t] = "read"
                      /\ string_cache[local[t].s] # 0
                      /\ pc'[t] # pc[t] )
                    => (pc'[t] = "idle" /\ lock_writer' = lock_writer)
                 /\ (pc'[t] = "write" /\ pc[t] # "write") => pc[t] = "miss"
       ]_vars

C19_Witness ==
    /\ lock_readers = Threads
    /\ lock_writer = 0
    /\ string_cache["typeck"] # 0
    /\ string_cache["codegen"] = 0
    /\ local[1].s = "typeck"
    /\ local[2].s = "codegen"

\* C20: a caller waiting for either lock holds none (the shared lock is
\* released before the exclusive lock is requested), and under a fair lock
\* every call of get_or_alloc_cached_string returns.
C20_EveryCallReturns ==
    /\ [](\A t \in Threads :
             (pc[t] \in {"enter", "miss"}) =>
                 (t \notin lock_readers /\ lock_writer # t))
    /\ \A t \in Threads : (pc[t] # "idle") ~> (pc[t] = "idle")

C20_Witness ==
    /\ \A t \in Threads : pc[t] = "idle" /\ ncalls[t] = MaxCalls
    /\ last_op.op = "or_insert_with"
    /\ intern_allocs = [l \in Labels |-> 1]
    /\ returned = {<<"typeck", string_cache["typeck"]>>,
                   <<"codegen", string_cache["codegen"]>>}

----------------------------------------------------------------------------
(* Stability of the string cache, checked under SpecCache.                 *)

CachedLabels == {l \in Labels : string_cache[l] # 0}

\* C21: the string cache only grows and its entries are stable: a label
\* mapped to an identifier keeps that identifier through every step
\* (interning of any label, alloc_string, binding of virtual ids, recording
\* of events, closing of guards), the sink's strings are never removed or
\* changed, and every identifier in the cache is the one the sink returned
\* for an allocation of that same label.
C21_CacheGrowsAndIsStable ==
    /\ [](\A l \in CachedLabels :
             /\ string_cache[l] \in LaterStrings
             /\ strings[string_cache[l]] = l
             /\ \A m \in CachedLabels : string_cache[m] = string_cache[l] => m = l)
    /\ [][ /\ \A l \in CachedLabels : string_cache'[l] = string_cache[l]
           /\ \A i \in DOMAIN strings :
                 i \in DOMAIN strings' /\ strings'[i] = strings[i]
       ]_vars

C21_Witness ==
    /\ string_cache["typeck"] = 6
    /\ string_cache["codegen"] = 8
    /\ strings[7] = "typeck"
    /\ bound_to = {<<7, 8>>, <<42, 6>>}
    /\ Len(events) = 2
    /\ \E i \in DOMAIN guards : ~guards[i].live /\ guards[i].inner = "Some"
    /\ last_op.op = "drop"

----------------------------------------------------------------------------
(* Order of printing and finishing, checked under SpecVerbose.             *)

\* C22: closing a VerboseTimingGuard that holds a start instant and an Open
\* inner guard, by scope exit or by the return of run(f), prints the timing
\* line first and finishes the inner interval afterwards: the line is
\* printed when the interval event is not yet among the recorded events.
\* The call of run(f) itself prints and records nothing, and while f runs
\* the guard is live and its interval is unfinished.
C22_PrintBeforeFinish ==
    /\ [](\A i \in in_run :
             guards[i].live /\ Finishes(guards[i]) = {})
    /\ [][ /\ (last_op'.op = "run") =>
                 UNCHANGED <<stdout, events, guards, intervals>>
           /\ (last_op'.op = "run_return") =>
                 (last_op'.guard \in in_run /\ last_op'.guard \notin in_run')
           /\ ( /\ last_op'.op \in {"drop", "run_return"}
                /\ guards[last_op'.guard].wrapper = "verbose"
                /\ guards[last_op'.guard].start_instant
                /\ guards[last_op'.guard].inner = "Some" )
              => LET g == guards[last_op'.guard]
                 IN /\ PrintsOneLine(g.what)
                    /\ Len(events') = Len(events) + 1
                    /\ events'[Len(events')].type = "interval"
                    /\ events'[Len(events')].start = g.start
                    /\ stdout'[Len(stdout')].at = Len(events)
                    /\ stdout'[Len(stdout')].at < Len(events')
       ]_vars

C22_Witness ==
    /\ last_op.op = "run_return"
    /\ guards[last_op.guard].inner = "Some"
    /\ guards[last_op.guard].start_instant
    /\ ~guards[last_op.guard].live
    /\ in_run = {}
    /\ Len(events) = 2
    /\ events[1].type = "instant"
    /\ events[2].type = "interval"
    /\ stdout = << [what |-> "typeck", at |-> 1] >>

====
